---- MODULE Spec2Model ----
(***************************************************************************)
(* hardyplan: the day-keyed schedule store (lib/kv.ts, day-based version), *)
(* the freshness check and the POST /api/scrape ingestion run, with the    *)
(* read routes.  Instants are whole hours since 2024-01-01T00:00Z; a       *)
(* storage key "YYYY-MM-DD" is the tuple <<y, m, d>> and a partial date    *)
(* "DD.MM" is the tuple <<d, m>>.                                          *)
(***************************************************************************)
EXTENDS Integers, Sequences, FiniteSets, TLC

VARIABLES
    now,          \* Date.now(), in hours since the epoch
    tz,           \* the server's timezone offset in hours (local = UTC + tz)
    cronSecret,   \* process.env.CRON_SECRET, or NoSecret
    dayRec,       \* schedules:day:{iso}   : iso -> stored day record
    daysList,     \* schedules:days:list   : sorted set, member iso -> score
    weekMeta,     \* schedules:week:{week} : week -> metadata
    latestUpdate, \* schedules:latest_update: Null or Some(instant)
    logs,         \* logs:scraping:{date}  : date -> [result, expires]
    run,          \* the POST /api/scrape invocations, by process
    lastRead,     \* the last answer of a read route
    budget        \* how many runs, storage faults and reads may still happen

storeVars == <<dayRec, daysList, weekMeta, latestUpdate>>
envVars == <<now, tz, cronSecret>>
vars == <<now, tz, cronSecret, dayRec, daysList, weekMeta, latestUpdate, logs,
          run, lastRead, budget>>

\* a value that may be null is a sequence of at most one element
Null == << >>
Some(x) == <<x>>
\* process.env.CRON_SECRET when the variable is not set (undefined)
NoSecret == "undefined"

----------------------------------------------------------------------------
(* Bounds of the model *)

\* days the clock may advance past the start of an era, one day at a time
MaxElapsedDays == 2
\* POST /api/scrape requests per behaviour
MaxRuns == 2
\* storage operations that may fail per behaviour
MaxFaults == 1

----------------------------------------------------------------------------
(* The calendar behind JavaScript's Date *)

HoursPerDay == 24
EpochYear == 2024

IsLeap(y) == (y % 4 = 0 /\ y % 100 # 0) \/ y % 400 = 0

DaysInMonth(y, m) ==
    IF m = 2 THEN (IF IsLeap(y) THEN 29 ELSE 28)
    ELSE IF m \in {4, 6, 9, 11} THEN 30 ELSE 31

DaysInYear(y) == IF IsLeap(y) THEN 366 ELSE 365

RECURSIVE DaysBeforeMonth(_, _)
DaysBeforeMonth(y, m) ==
    IF m <= 1 THEN 0 ELSE DaysBeforeMonth(y, m - 1) + DaysInMonth(y, m - 1)

RECURSIVE DaysBeforeYear(_)
DaysBeforeYear(y) ==
    IF y <= EpochYear THEN 0 ELSE DaysBeforeYear(y - 1) + DaysInYear(y - 1)

\* the day number of a real calendar date (0 = 2024-01-01)
DayNum(y, m, d) == DaysBeforeYear(y) + DaysBeforeMonth(y, m) + (d - 1)

Years == EpochYear .. (EpochYear + 2)

IsRealDate(iso) ==
    /\ iso[1] \in Years
    /\ iso[2] \in 1..12
    /\ iso[3] \in 1..DaysInMonth(iso[1], iso[2])

RealDates == {iso \in Years \X (1..12) \X (1..31) : IsRealDate(iso)}

\* the civil date <<y, m, d>> of a day number
CivilOf(n) ==
    LET y == CHOOSE yy \in Years :
                 DaysBeforeYear(yy) <= n /\ n < DaysBeforeYear(yy + 1)
        r == n - DaysBeforeYear(y)
        m == CHOOSE mm \in 1..12 :
                 DaysBeforeMonth(y, mm) <= r /\ r < DaysBeforeMonth(y, mm + 1)
    IN  <<y, m, r - DaysBeforeMonth(y, m) + 1>>

CivilTable == [n \in 0..(DaysBeforeYear(EpochYear + 3) - 1) |-> CivilOf(n)]

\* floor division, as Math.floor of a quotient (the divisor is positive)
FloorDiv(a, b) == a \div b

\* Math.ceil of a quotient
CeilDiv(a, b) == -((-a) \div b)

\* the local calendar date of an instant: getFullYear/getMonth/getDate
LocalDate(t, off) == CivilTable[FloorDiv(t + off, HoursPerDay)]

GetFullYear(t, off) == LocalDate(t, off)[1]

\* getMonth() is zero-based: 0 is January, 11 is December
GetMonth(t, off) == LocalDate(t, off)[2] - 1

\* toISOString().split("T")[0]: the UTC calendar date
ToISODateUTC(t) == CivilTable[FloorDiv(t, HoursPerDay)]

\* today.setHours(0, 0, 0, 0): the instant of local midnight
LocalMidnight(t, off) == FloorDiv(t + off, HoursPerDay) * HoursPerDay - off

\* new Date("YYYY-MM-DD").getTime(): midnight UTC of that date
ParseISODate(iso) == DayNum(iso[1], iso[2], iso[3]) * HoursPerDay

\* the instant of midnight UTC of a date, for writing instants down
Instant(y, m, d) == DayNum(y, m, d) * HoursPerDay

----------------------------------------------------------------------------
(* lib/kv.ts (day-keyed store): convertToISODate *)

\* convertToISODate without the two year-boundary rules
ConvertToISODateNoBoundary(date, t, off) ==
    <<GetFullYear(t, off), date[2], date[1]>>

\* date.split(".").map(Number) gives [day, month]; the reference is new Date()
ConvertToISODate(date, t, off) ==
    LET day == date[1]
        month == date[2]
        year0 == GetFullYear(t, off)
        year1 == IF GetMonth(t, off) = 0 /\ month = 12 THEN year0 - 1 ELSE year0
        year2 == IF GetMonth(t, off) = 11 /\ month = 1 THEN year1 + 1 ELSE year1
    IN  <<year2, month, day>>

----------------------------------------------------------------------------
(* The source documents and what the parser may return for them *)

Session(type, exercises, method, duration) ==
    [type |-> type, exercises |-> exercises, trainingMethod |-> method,
     mainPartDuration |-> duration]

Speed == Session("Speed", <<"box jump", "DU (skakanka)">>, "2 x EMOM", "21 min")
Hyrox == Session("HYROX SPEED", <<"ROW", "SKI/bike ERG">>, "4 rundy, co 1:30", "24 min")
Athletic == Session("Athletic", <<"front squat">>, "WORK + TABATA", "18 min")

Day(date, dayName, sessions) ==
    [date |-> date, dayName |-> dayName, trainingSessions |-> sessions]

\* the object generateObject returns: {week, days}
WeekA ==
    [week |-> "20/10/2024-26/10/2024",
     days |-> << Day(<<20, 10>>, "Niedziela", <<Speed, Hyrox>>),
                 Day(<<26, 10>>, "Sobota", << >>) >>]

\* the week after WeekA; its last day is 14 days after 20.10
WeekB ==
    [week |-> "27/10/2024-03/11/2024",
     days |-> << Day(<<27, 10>>, "Niedziela", <<Athletic>>),
                 Day(<<3, 11>>, "Niedziela", <<Speed>>) >>]

\* a corrected re-post of WeekA's first day under another week identifier
WeekARepost ==
    [week |-> "20/10/2024-27/10/2024",
     days |-> << Day(<<20, 10>>, "Niedziela", <<Athletic>>) >>]

\* the week across the turn of the year
WeekY ==
    [week |-> "30/12/2024-05/01/2025",
     days |-> << Day(<<30, 12>>, "Poniedzialek", <<Speed>>),
                 Day(<<2, 1>>, "Czwartek", << >>) >>]

\* an object the schema accepts although the post listed no day
WeekNoDays ==
    [week |-> "04/11/2024-10/11/2024", days |-> << >>]

\* an object without the week property
ObjectNoWeek ==
    [days |-> << Day(<<27, 10>>, "Niedziela", <<Athletic>>) >>]

UrlCurrent == "/post/plan-treningowy"
UrlNext == "/post/plan-treningowy-na-tydzien-27-10-03-11"
UrlNewYear == "/post/plan-treningowy-na-tydzien-30-12-05-01"

\* what the parser may extract from the post behind a URL
Candidates(url) ==
    IF url = UrlCurrent THEN {WeekA, WeekARepost}
    ELSE IF url = UrlNext THEN {WeekB, WeekNoDays, ObjectNoWeek}
    ELSE {WeekY}

\* the instants at which the behaviours of the model start
EraOctober == Instant(2024, 10, 20)
EraDecember == Instant(2024, 12, 20)
EraJanuary == Instant(2025, 1, 3)
Eras == {EraOctober, EraDecember, EraJanuary}

\* a later visit: the clock may jump this many days once
JumpDays == 30

\* the era an instant belongs to: the latest start not after it
EraOf(t) == CHOOSE s \in Eras : s <= t /\ \A s2 \in Eras : s2 <= t => s2 <= s

\* the posts the category page links to at an instant
UrlsAt(t) ==
    IF EraOf(t) = EraOctober THEN {UrlCurrent, UrlNext} ELSE {UrlNewYear}

\* Array.from(new Set(urlStrings)).slice(0, 2)
UrlLists(t) ==
    {<< >>} \cup {<<u>> : u \in UrlsAt(t)}
            \cup {uv \in UrlsAt(t) \X UrlsAt(t) : uv[1] # uv[2]}

Secret == "s3cret"
\* the authorization headers a request may carry
\* the authorization headers a request may carry, as the parts of the string;
\* << >> is a request without the header (headers.get returns null)
AuthHeaders ==
    {<< >>, <<"Bearer ", Secret>>, <<"Bearer ", "guess">>, <<"", Secret>>,
     <<"Bearer ", NoSecret>>, <<"Bearer ", "">>}

----------------------------------------------------------------------------
(* Storage faults, the run budget and small helpers *)

\* whether the next storage operation may fail
FaultChoices == IF budget.faults > 0 THEN {TRUE, FALSE} ELSE {TRUE}

Spend(ok) == budget' = IF ok THEN budget ELSE [budget EXCEPT !.faults = @ - 1]

Range(q) == {q[k] : k \in DOMAIN q}

SetMax(S) == CHOOSE x \in S : \A y \in S : y <= x

\* redis.set(key, value) on a keyed family: the value replaces what was there
Put(f, k, v) == [x \in DOMAIN f \cup {k} |-> IF x = k THEN v ELSE f[x]]

UpdRun(p, r) == run' = [run EXCEPT ![p] = r]

\* the same after a storage operation, remembering whether one has failed
UpdRunF(p, ok, r) == run' = [run EXCEPT ![p] = [r EXCEPT !.faulted = @ \/ ~ok]]

----------------------------------------------------------------------------
(* lib/kv.ts: the reads *)

\* getDayScheduleByISO treating a day without sessions as no data
GetDayScheduleByISORestAsNull(iso, ok) ==
    IF ok /\ iso \in DOMAIN dayRec /\ dayRec[iso].trainingSessions # << >>
    THEN Some(dayRec[iso]) ELSE Null

\* redis.get(`schedules:day:${isoDate}`); a storage error is caught: null
GetDayScheduleByISO(iso, ok) ==
    IF ok /\ iso \in DOMAIN dayRec THEN Some(dayRec[iso]) ELSE Null

GetDaySchedule(date, t, off, ok) ==
    GetDayScheduleByISO(ConvertToISODate(date, t, off), ok)

GetTodaySchedule(t, ok) == GetDayScheduleByISO(ToISODateUTC(t), ok)

\* kv lines 104-113: redis.exists(`schedules:day:${isoDate}`) === 1; a storage
\* error is caught: false
DayScheduleExists(iso, ok) == ok /\ iso \in DOMAIN dayRec

\* weekScheduleExists looking under the week-keyed store's key
\* schedules:{week}, which the day-keyed store never writes
WeekScheduleExistsOldKey(week, ok) == ok /\ week \in {}

\* redis.exists(`schedules:week:${week}`) === 1; a storage error is caught: false
WeekScheduleExists(week, ok) == ok /\ week \in DOMAIN weekMeta

----------------------------------------------------------------------------
(* lib/kv.ts: shouldSkipScraping *)

SkipDaysAhead == 14
SkipMaxAge == 5
NeverUpdated == 999

\* lines 255-271: the days from local midnight to the latest stored date
DaysAhead(dates, t, off) ==
    LET today == LocalMidnight(t, off)
        maxDate == SetMax({today} \cup {ParseISODate(d) : d \in dates})
    IN  CeilDiv(maxDate - today, HoursPerDay)

\* lines 274-277: a missing (or zero) marker counts as 999 days
DaysSinceUpdate(marker, t) ==
    IF marker # Null /\ marker[1] # 0
    THEN FloorDiv(t - marker[1], HoursPerDay)
    ELSE NeverUpdated

\* the decision with a strict comparison of the coverage
SkipDecisionStrict(daysAhead, daysSinceUpdate) ==
    daysAhead > SkipDaysAhead /\ daysSinceUpdate < SkipMaxAge

\* the decision still skipping on the day the age reaches the limit
SkipDecisionLate(daysAhead, daysSinceUpdate) ==
    daysAhead >= SkipDaysAhead /\ daysSinceUpdate <= SkipMaxAge

\* line 280
SkipDecision(daysAhead, daysSinceUpdate) ==
    daysAhead >= SkipDaysAhead /\ daysSinceUpdate < SkipMaxAge

SkipNoSchedules ==
    [shouldSkip |-> FALSE, reason |-> <<"No schedules in database">>, daysAhead |-> 0]

\* the catch block answering "skip" when the check failed
SkipErrorSkips ==
    [shouldSkip |-> TRUE, reason |-> <<"Error checking schedules">>, daysAhead |-> 0]

\* kv lines 293-301
SkipError ==
    [shouldSkip |-> FALSE, reason |-> <<"Error checking schedules">>, daysAhead |-> 0]

SkipResult(daysAhead, since) ==
    IF SkipDecision(daysAhead, since)
    THEN [shouldSkip |-> TRUE, reason |-> <<"Have", daysAhead, since>>,
          daysAhead |-> daysAhead]
    ELSE [shouldSkip |-> FALSE, reason |-> <<"Only", daysAhead, since>>,
          daysAhead |-> daysAhead]

NoSkipYet == [shouldSkip |-> FALSE, reason |-> <<"pending">>, daysAhead |-> 0]

----------------------------------------------------------------------------
(* lib/kv.ts: logScrapingOperation *)

LogTTLDays == 30

\* logs:scraping:{UTC date} is overwritten, with a 30 day expiry; a storage
\* error is caught and the entry is not written
LogScrapingOperation(p, result, ok, r) ==
    LET key == ToISODateUTC(now)
    IN  /\ logs' = IF ok
                   THEN Put(logs, key, [result |-> result,
                                        expires |-> now + LogTTLDays * HoursPerDay])
                   ELSE logs
        /\ UpdRunF(p, ok, [r EXCEPT !.writes =
                             IF ok THEN @ \cup {<<"log", key>>} ELSE @])

----------------------------------------------------------------------------
(* Initial state *)

NoResponse == [status |-> 0]

IdleRun ==
    [pc |-> "idle", skip |-> NoSkipYet, daysAhead |-> 0, posts |-> << >>,
     schedules |-> << >>, i |-> 1, j |-> 1, storeNow |-> 0, iso |-> << >>,
     storedCount |-> 0, stored |-> << >>, skipped |-> << >>, errors |-> << >>,
     totalDaysStored |-> 0, fatal |-> << >>, response |-> NoResponse,
     writes |-> {}, calls |-> {}, known |-> {}, faulted |-> FALSE,
     header |-> << >>, attempted |-> << >>]

NoRead == [route |-> "none"]

EmptyFn == [x \in {} |-> Null]

Init ==
    /\ now \in Eras
    /\ tz = 0
    /\ cronSecret \in {NoSecret, "", Secret}
    /\ dayRec = EmptyFn
    /\ daysList = EmptyFn
    /\ weekMeta = EmptyFn
    /\ latestUpdate = Null
    /\ logs = EmptyFn
    /\ run = [p \in {1} |-> IdleRun]
    /\ lastRead = NoRead
    /\ budget = [runs |-> MaxRuns, faults |-> MaxFaults]

----------------------------------------------------------------------------
(* app/api/scrape/route.ts: POST, one action per await *)

\* the check without the test that the secret is configured
AuthorizedNoConfigCheck(header) == header = <<"Bearer ", cronSecret>>

\* line 33
Authorized(header) ==
    ~(cronSecret = NoSecret \/ cronSecret = "") /\ header = <<"Bearer ", cronSecret>>

\* new Date().toISOString()
Timestamp == now

ScrapingResult(success, processed, errors, urls) ==
    [success |-> success, schedulesProcessed |-> processed, errors |-> errors,
     urls |-> urls, timestamp |-> Timestamp]

\* lines 30-37: a request arrives and the secret is verified
Start(p, header) ==
    /\ run[p].pc = "idle"
    /\ budget.runs > 0
    /\ budget' = [budget EXCEPT !.runs = @ - 1]
    /\ IF Authorized(header)
       THEN UpdRun(p, [run[p] EXCEPT !.pc = "skipIndex", !.header = header,
                                     !.known = DOMAIN weekMeta])
       ELSE UpdRun(p, [run[p] EXCEPT !.pc = "done", !.header = header,
                          !.response = [status |-> 401, error |-> "Unauthorized"]])
    /\ lastRead' = NoRead
    /\ UNCHANGED <<envVars, storeVars, logs>>

\* kv lines 245-271: the index is read and daysAhead computed
SkipReadIndex(p, ok) ==
    LET r == [run[p] EXCEPT !.calls = @ \cup {"shouldSkipScraping"}]
        dates == DOMAIN daysList
    IN  /\ run[p].pc = "skipIndex"
        /\ Spend(ok)
        /\ IF ~ok
           THEN UpdRunF(p, ok, [r EXCEPT !.pc = "skipDone", !.skip = SkipError])
           ELSE IF dates = {}
           THEN UpdRunF(p, ok, [r EXCEPT !.pc = "skipDone", !.skip = SkipNoSchedules])
           ELSE UpdRunF(p, ok, [r EXCEPT !.pc = "skipMarker",
                              !.daysAhead = DaysAhead(dates, now, tz)])
        /\ lastRead' = NoRead
        /\ UNCHANGED <<envVars, storeVars, logs>>

\* kv lines 274-292: the marker is read and the decision taken
SkipReadMarker(p, ok) ==
    /\ run[p].pc = "skipMarker"
    /\ Spend(ok)
    /\ UpdRunF(p, ok, [run[p] EXCEPT
            !.pc = "skipDone",
            !.skip = IF ok
                     THEN SkipResult(run[p].daysAhead,
                                     DaysSinceUpdate(latestUpdate, now))
                     ELSE SkipError])
    /\ lastRead' = NoRead
    /\ UNCHANGED <<envVars, storeVars, logs>>

\* lines 43-65: the skip is logged and answered
LogSkip(p, ok) ==
    LET result == ScrapingResult(TRUE, 0, << >>, << >>)
        body == [result |-> result, skipped |-> TRUE,
                 skipReason |-> run[p].skip.reason,
                 daysAhead |-> run[p].skip.daysAhead]
    IN  /\ run[p].pc = "skipDone"
        /\ run[p].skip.shouldSkip
        /\ Spend(ok)
        /\ LogScrapingOperation(p, body, ok,
              [run[p] EXCEPT !.pc = "done",
                             !.response = [status |-> 200, body |-> body]])
        /\ lastRead' = NoRead
        /\ UNCHANGED <<envVars, storeVars>>

\* what fetching the posts of the category page may do: every post loads (0)
\* or the post at one position fails to load
FetchOutcomes(urls) == 0..Len(urls)

\* what scrapeAllBlogPosts does once the skip check is passed
ScrapeOutcome(r, urls, loaded, failedPost) ==
    IF ~loaded
    THEN [r EXCEPT !.pc = "fatal", !.fatal = <<"Error scraping category page">>]
    ELSE IF urls = << >>
    THEN [r EXCEPT !.pc = "noPosts", !.attempted = urls]
    ELSE IF failedPost # 0
    THEN [r EXCEPT !.pc = "fatal", !.attempted = urls,
                   !.fatal = <<"Failed to scrape blog post", urls[failedPost]>>]
    ELSE [r EXCEPT !.pc = "parse", !.attempted = urls, !.posts = urls]

\* the handler without the return that ends a skipped run
ScrapeWithoutReturn(p, urls, loaded, failedPost) ==
    LET r == [run[p] EXCEPT !.calls = @ \cup {"scrapeAllBlogPosts"}]
    IN  /\ run[p].pc = "skipDone"
        /\ failedPost \in FetchOutcomes(urls)
        /\ UpdRun(p, ScrapeOutcome(r, urls, loaded, failedPost))
        /\ lastRead' = NoRead
        /\ UNCHANGED <<envVars, storeVars, logs, budget>>

\* line 68: scrapeAllBlogPosts.  The category page may fail to load
\* (scrapeCategoryPage rethrows), and a post that fails to load rejects the
\* Promise.all over the posts: either way the call throws into the handler's
\* catch
Scrape(p, urls, loaded, failedPost) ==
    LET r == [run[p] EXCEPT !.calls = @ \cup {"scrapeAllBlogPosts"}]
    IN  /\ run[p].pc = "skipDone"
        /\ ~run[p].skip.shouldSkip
        /\ failedPost \in FetchOutcomes(urls)
        /\ UpdRun(p, ScrapeOutcome(r, urls, loaded, failedPost))
        /\ lastRead' = NoRead
        /\ UNCHANGED <<envVars, storeVars, logs, budget>>

\* lines 70-82
LogNoPosts(p, ok) ==
    LET result == ScrapingResult(FALSE, 0, << <<"No blog posts found">> >>, << >>)
    IN  /\ run[p].pc = "noPosts"
        /\ Spend(ok)
        /\ LogScrapingOperation(p, result, ok,
              [run[p] EXCEPT !.pc = "done",
                             !.response = [status |-> 200, body |-> result]])
        /\ lastRead' = NoRead
        /\ UNCHANGED <<envVars, storeVars>>

----------------------------------------------------------------------------
(* lib/llm-parser.ts: parseAllSchedules *)

AllCandidates == {WeekA, WeekARepost, WeekB, WeekY, WeekNoDays}

\* types.ts lines 20-40: z.string() and z.array() require the property to be
\* present with the right type; an empty string or an empty array passes
DayScheduleSchema(day) ==
    {"date", "dayName", "trainingSessions"} \subseteq DOMAIN day

WeekScheduleSchema(c) ==
    /\ {"week", "days"} \subseteq DOMAIN c
    /\ \A k \in 1..Len(c.days) : DayScheduleSchema(c.days[k])

\* what parseScheduleWithLLM does for one post: it throws (Null) or returns
\* an object that passed WeekScheduleSchema
ParseOutcomes(url) ==
    {Null} \cup {Some(c) : c \in {o \in Candidates(url) : WeekScheduleSchema(o)}}

ParseResults(posts) ==
    {res \in [1..Len(posts) -> {Null} \cup {Some(c) : c \in AllCandidates}] :
        \A k \in 1..Len(posts) : res[k] \in ParseOutcomes(posts[k])}

\* lines 122-126: the metadata added to the parsed object
WithMetadata(c, url, t) ==
    [week |-> c.week, days |-> c.days, sourceUrl |-> url, scrapedAt |-> t]

\* lines 157-168: the posts that parse are kept in order, the others dropped
RECURSIVE ParsedSchedules(_, _, _, _)
ParsedSchedules(posts, res, k, t) ==
    IF k > Len(posts) THEN << >>
    ELSE (IF res[k] = Null THEN << >>
          ELSE << WithMetadata(res[k][1], posts[k], t) >>)
         \o ParsedSchedules(posts, res, k + 1, t)

\* route line 87
Parse(p, res) ==
    /\ run[p].pc = "parse"
    /\ res \in ParseResults(run[p].posts)
    /\ UpdRun(p, [run[p] EXCEPT
            !.pc = "loop",
            !.calls = @ \cup {"parseAllSchedules"},
            !.schedules = ParsedSchedules(run[p].posts, res, 1, now),
            !.i = 1])
    /\ lastRead' = NoRead
    /\ UNCHANGED <<envVars, storeVars, logs, budget>>

----------------------------------------------------------------------------
(* route lines 97-129 with kv storeWeekSchedule, one action per await *)

Current(p) == run[p].schedules[run[p].i]

\* route lines 113-121: what the loop does with storeWeekSchedule's result
AfterStore(r, week, daysStored) ==
    IF daysStored > 0
    THEN [r EXCEPT !.pc = "loop", !.i = @ + 1,
                   !.stored = Append(@, week),
                   !.totalDaysStored = @ + daysStored]
    ELSE [r EXCEPT !.pc = "loop", !.i = @ + 1,
                   !.errors = Append(@, <<"Failed to store schedule for week", week>>)]

\* route lines 100-108 and kv lines 51-52
CheckExists(p, ok) ==
    LET sched == Current(p)
    IN  /\ run[p].pc = "loop"
        /\ run[p].i <= Len(run[p].schedules)
        /\ Spend(ok)
        /\ IF WeekScheduleExists(sched.week, ok)
           THEN UpdRunF(p, ok, [run[p] EXCEPT !.skipped = Append(@, sched.week),
                                         !.i = @ + 1])
           ELSE UpdRunF(p, ok, [run[p] EXCEPT
                    !.pc = IF Len(sched.days) = 0 THEN "storeWeek" ELSE "storeDay",
                    !.j = 1, !.storedCount = 0, !.storeNow = now])
        /\ lastRead' = NoRead
        /\ UNCHANGED <<envVars, storeVars, logs>>

\* the record written under schedules:day:{isoDate} (kv lines 60-65)
DayRecord(day, iso, sched) ==
    [date |-> day.date, dayName |-> day.dayName,
     trainingSessions |-> day.trainingSessions, isoDate |-> iso,
     sourceUrl |-> sched.sourceUrl, scrapedAt |-> sched.scrapedAt]

\* a store that keeps the record a date already has
SetDayFirstWriteWins(iso, rec) ==
    IF iso \in DOMAIN dayRec THEN dayRec ELSE Put(dayRec, iso, rec)

\* a store that updates a record in place: an existing record keeps its
\* source and time and takes the new sessions
SetDayMerging(iso, rec) ==
    IF iso \in DOMAIN dayRec
    THEN Put(dayRec, iso, [dayRec[iso] EXCEPT
                              !.trainingSessions = rec.trainingSessions])
    ELSE Put(dayRec, iso, rec)

\* redis.set(key, value): the key's value is replaced
SetDay(iso, rec) == Put(dayRec, iso, rec)

\* the store going on to index the day when its redis.set has failed
StoreDaySetIgnoringFailure(p, ok) ==
    LET sched == Current(p)
        day == sched.days[run[p].j]
        iso == ConvertToISODate(day.date, now, tz)
    IN  /\ run[p].pc = "storeDay"
        /\ Spend(ok)
        /\ dayRec' = IF ok THEN SetDay(iso, DayRecord(day, iso, sched)) ELSE dayRec
        /\ UpdRunF(p, ok, [run[p] EXCEPT !.pc = "storeIndex", !.iso = iso,
                         !.writes = IF ok THEN @ \cup {<<"day", iso>>} ELSE @])
        /\ lastRead' = NoRead
        /\ UNCHANGED <<envVars, daysList, weekMeta, latestUpdate, logs>>

\* kv lines 56-65
StoreDaySet(p, ok) ==
    LET sched == Current(p)
        day == sched.days[run[p].j]
        iso == ConvertToISODate(day.date, now, tz)
    IN  /\ run[p].pc = "storeDay"
        /\ Spend(ok)
        /\ IF ok
           THEN /\ dayRec' = SetDay(iso, DayRecord(day, iso, sched))
                /\ UpdRunF(p, ok, [run[p] EXCEPT !.pc = "storeIndex", !.iso = iso,
                                 !.writes = @ \cup {<<"day", iso>>}])
           ELSE /\ dayRec' = dayRec
                /\ UpdRunF(p, ok, AfterStore(run[p], sched.week, 0))
        /\ lastRead' = NoRead
        /\ UNCHANGED <<envVars, daysList, weekMeta, latestUpdate, logs>>

\* the store going on to the next day when zadd has failed
StoreDayIndexIgnoringFailure(p, ok) ==
    LET sched == Current(p)
        iso == run[p].iso
    IN  /\ run[p].pc = "storeIndex"
        /\ Spend(ok)
        /\ daysList' = IF ok THEN Put(daysList, iso, run[p].storeNow) ELSE daysList
        /\ UpdRunF(p, ok, [run[p] EXCEPT
                !.pc = IF run[p].j = Len(sched.days)
                       THEN "storeWeek" ELSE "storeDay",
                !.j = @ + 1, !.storedCount = @ + 1,
                !.writes = IF ok THEN @ \cup {<<"index", iso>>} ELSE @])
        /\ lastRead' = NoRead
        /\ UNCHANGED <<envVars, dayRec, weekMeta, latestUpdate, logs>>

\* kv lines 68-73: zadd adds the member or moves it to the new score
StoreDayIndex(p, ok) ==
    LET sched == Current(p)
        iso == run[p].iso
    IN  /\ run[p].pc = "storeIndex"
        /\ Spend(ok)
        /\ IF ok
           THEN /\ daysList' = Put(daysList, iso, run[p].storeNow)
                /\ UpdRunF(p, ok, [run[p] EXCEPT
                        !.pc = IF run[p].j = Len(sched.days)
                               THEN "storeWeek" ELSE "storeDay",
                        !.j = @ + 1, !.storedCount = @ + 1,
                        !.writes = @ \cup {<<"index", iso>>}])
           ELSE /\ daysList' = daysList
                /\ UpdRunF(p, ok, AfterStore(run[p], sched.week, 0))
        /\ lastRead' = NoRead
        /\ UNCHANGED <<envVars, dayRec, weekMeta, latestUpdate, logs>>

\* kv lines 78-84
StoreWeekMeta(p, ok) ==
    LET sched == Current(p)
    IN  /\ run[p].pc = "storeWeek"
        /\ Spend(ok)
        /\ IF ok
           THEN /\ weekMeta' = Put(weekMeta, sched.week,
                        [week |-> sched.week, sourceUrl |-> sched.sourceUrl,
                         scrapedAt |-> sched.scrapedAt,
                         dayCount |-> Len(sched.days)])
                /\ UpdRunF(p, ok, [run[p] EXCEPT !.pc = "storeMarker",
                                 !.writes = @ \cup {<<"week", <<sched.week>> >>}])
           ELSE /\ weekMeta' = weekMeta
                /\ UpdRunF(p, ok, AfterStore(run[p], sched.week, 0))
        /\ lastRead' = NoRead
        /\ UNCHANGED <<envVars, dayRec, daysList, latestUpdate, logs>>

\* kv lines 87-92, and the return to the route's loop
StoreMarker(p, ok) ==
    LET sched == Current(p)
    IN  /\ run[p].pc = "storeMarker"
        /\ Spend(ok)
        /\ IF ok
           THEN /\ latestUpdate' = Some(run[p].storeNow)
                /\ UpdRunF(p, ok, AfterStore(
                        [run[p] EXCEPT !.writes = @ \cup {<<"marker", << >> >>}],
                        sched.week, run[p].storedCount))
           ELSE /\ latestUpdate' = latestUpdate
                /\ UpdRunF(p, ok, AfterStore(run[p], sched.week, 0))
        /\ lastRead' = NoRead
        /\ UNCHANGED <<envVars, dayRec, daysList, weekMeta, logs>>

\* the report counting the stored days as processed schedules
FinalLogCountingDays(p, ok) ==
    LET r == run[p]
        result == ScrapingResult(Len(r.errors) = 0, r.totalDaysStored, r.errors,
                                 r.posts)
        body == [result |-> result, stored |-> r.stored, skipped |-> r.skipped,
                 totalDaysStored |-> r.totalDaysStored]
    IN  /\ r.pc = "loop"
        /\ r.i > Len(r.schedules)
        /\ Spend(ok)
        /\ LogScrapingOperation(p, result, ok,
              [r EXCEPT !.pc = "done",
                        !.response = [status |-> 200, body |-> body]])
        /\ lastRead' = NoRead
        /\ UNCHANGED <<envVars, storeVars>>

\* route lines 132-154
FinalLog(p, ok) ==
    LET r == run[p]
        result == ScrapingResult(Len(r.errors) = 0, Len(r.stored), r.errors, r.posts)
        body == [result |-> result, stored |-> r.stored, skipped |-> r.skipped,
                 totalDaysStored |-> r.totalDaysStored]
    IN  /\ r.pc = "loop"
        /\ r.i > Len(r.schedules)
        /\ Spend(ok)
        /\ LogScrapingOperation(p, result, ok,
              [r EXCEPT !.pc = "done",
                        !.response = [status |-> 200, body |-> body]])
        /\ lastRead' = NoRead
        /\ UNCHANGED <<envVars, storeVars>>

\* the catch answering with the report alone, as a run that ended normally
FatalLogAsReport(p, ok) ==
    LET result == ScrapingResult(FALSE, 0, <<run[p].fatal>>, << >>)
    IN  /\ run[p].pc = "fatal"
        /\ Spend(ok)
        /\ LogScrapingOperation(p, result, ok,
              [run[p] EXCEPT !.pc = "done",
                             !.response = [status |-> 200, body |-> result]])
        /\ lastRead' = NoRead
        /\ UNCHANGED <<envVars, storeVars>>

\* route lines 155-172: the catch of the whole handler; the body is
\* {error, details: result}
FatalLog(p, ok) ==
    LET result == ScrapingResult(FALSE, 0, <<run[p].fatal>>, << >>)
    IN  /\ run[p].pc = "fatal"
        /\ Spend(ok)
        /\ LogScrapingOperation(p, result, ok,
              [run[p] EXCEPT !.pc = "done",
                             !.response = [status |-> 500,
                                           error |-> "Wystapil blad podczas pobierania danych",
                                           body |-> result]])
        /\ lastRead' = NoRead
        /\ UNCHANGED <<envVars, storeVars>>

\* the response has been sent; the invocation's locals are gone
Finish(p) ==
    /\ run[p].pc = "done"
    /\ UpdRun(p, IdleRun)
    /\ lastRead' = NoRead
    /\ UNCHANGED <<envVars, storeVars, logs, budget>>

----------------------------------------------------------------------------
(* The read routes *)

AllIdle == \A p \in DOMAIN run : run[p].pc = "idle"

\* the DD.MM dates a client asks for
ReadDates == {<<20, 10>>, <<26, 10>>, <<3, 11>>, <<30, 12>>, <<2, 1>>, <<15, 6>>}

\* app/api/schedules/[date]/route.ts lines 29-43: null and a record are both
\* answered 200
AnswerDay(found) == [status |-> 200, body |-> found]

\* GET /api/schedules/[date] with a well-formed DD.MM; the read routes are
\* followed between two ingestion runs
ReadDate(date, ok) ==
    /\ AllIdle
    /\ Spend(ok)
    /\ lastRead' = [route |-> "date", date |-> date, failed |-> ~ok,
                    answer |-> AnswerDay(GetDaySchedule(date, now, tz, ok))]
    /\ UNCHANGED <<envVars, storeVars, logs, run>>

\* GET /api/schedules/[date] with a parameter that is not \d{2}\.\d{2}
ReadBadDate ==
    /\ AllIdle
    /\ lastRead' = [route |-> "date", date |-> << >>, failed |-> FALSE,
                    answer |-> [status |-> 400, body |-> Null]]
    /\ UNCHANGED <<envVars, storeVars, logs, run, budget>>

\* the route remembering the visit in the store
ReadTodayTouching(ok) ==
    /\ AllIdle
    /\ Spend(ok)
    /\ lastRead' = [route |-> "today", date |-> << >>, failed |-> ~ok,
                    answer |-> AnswerDay(GetTodaySchedule(now, ok))]
    /\ latestUpdate' = Some(now)
    /\ UNCHANGED <<envVars, dayRec, daysList, weekMeta, logs, run>>

\* the keys dayScheduleExists is asked about
ExistsKeys == {<<2024, 10, 20>>, <<2025, 12, 30>>}

\* dayScheduleExists called on its own (no route calls it)
ReadDayExists(iso, ok) ==
    /\ AllIdle
    /\ Spend(ok)
    /\ lastRead' = [route |-> "exists", date |-> iso, failed |-> ~ok,
                    answer |-> [status |-> 200,
                                body |-> DayScheduleExists(iso, ok)]]
    /\ UNCHANGED <<envVars, storeVars, logs, run>>

\* GET /api/schedules/today
ReadToday(ok) ==
    /\ AllIdle
    /\ Spend(ok)
    /\ lastRead' = [route |-> "today", date |-> << >>, failed |-> ~ok,
                    answer |-> AnswerDay(GetTodaySchedule(now, ok))]
    /\ UNCHANGED <<envVars, storeVars, logs, run>>

\* the order of two keys as strings "YYYY-MM-DD"
IsoBefore(a, b) ==
    \/ a[1] < b[1]
    \/ a[1] = b[1] /\ a[2] < b[2]
    \/ a[1] = b[1] /\ a[2] = b[2] /\ a[3] < b[3]

\* zrange(key, 0, -1, {rev: true}): the members by descending score, members
\* of equal score in descending lexicographical order
RECURSIVE ZRangeRev(_, _)
ZRangeRev(list, members) ==
    IF members = {} THEN << >>
    ELSE LET first == CHOOSE a \in members : \A b \in members \ {a} :
                          \/ list[a] > list[b]
                          \/ list[a] = list[b] /\ IsoBefore(b, a)
         IN  <<first>> \o ZRangeRev(list, members \ {first})

\* kv lines 135-159: the index is read newest score first, every member is
\* fetched with getDayScheduleByISO and the nulls are dropped; a failing
\* index read is caught and answered with the empty list
GetAllDaySchedules(okIndex, badGet) ==
    LET dates == ZRangeRev(daysList, DOMAIN daysList)
        Found(iso) == GetDayScheduleByISO(iso, Some(iso) # badGet) # Null
        kept == SelectSeq(dates, Found)
    IN  IF okIndex THEN [k \in 1..Len(kept) |-> dayRec[kept[k]]] ELSE << >>

\* the gets of getAllDaySchedules that may fail
BadGets == {Null} \cup (IF budget.faults > 0
                        THEN {Some(iso) : iso \in DOMAIN daysList} ELSE {})

\* GET /api/schedules
ReadAll(okIndex, badGet) ==
    LET ok == okIndex /\ badGet = Null
    IN  /\ AllIdle
        /\ badGet \in BadGets
        /\ okIndex \/ badGet = Null
        /\ Spend(ok)
        /\ lastRead' = [route |-> "all", date |-> << >>, failed |-> ~ok,
                        answer |-> [status |-> 200,
                                    body |-> GetAllDaySchedules(okIndex, badGet)]]
        /\ UNCHANGED <<envVars, storeVars, logs, run>>

----------------------------------------------------------------------------
(* The clock *)

\* the 30 day expiry of the log entries
Unexpired(t) == [k \in {x \in DOMAIN logs : logs[x].expires > t} |-> logs[k]]

Elapsed(t) == t - EraOf(t)

\* a day passes between two requests
Tick ==
    /\ AllIdle
    /\ Elapsed(now) + HoursPerDay <= MaxElapsedDays * HoursPerDay
    /\ now' = now + HoursPerDay
    /\ logs' = Unexpired(now')
    /\ lastRead' = NoRead
    /\ UNCHANGED <<tz, cronSecret, storeVars, run, budget>>

\* a month passes; only the January era is followed that far
Jump ==
    /\ AllIdle
    /\ EraOf(now) = EraJanuary
    /\ Elapsed(now) <= MaxElapsedDays * HoursPerDay
    /\ now' = now + JumpDays * HoursPerDay
    /\ logs' = Unexpired(now')
    /\ lastRead' = NoRead
    /\ UNCHANGED <<tz, cronSecret, storeVars, run, budget>>

----------------------------------------------------------------------------
(* The specification *)

Post(p) ==
    \/ \E header \in AuthHeaders : Start(p, header)
    \/ \E ok \in FaultChoices : SkipReadIndex(p, ok)
    \/ \E ok \in FaultChoices : SkipReadMarker(p, ok)
    \/ \E ok \in FaultChoices : LogSkip(p, ok)
    \/ \E urls \in UrlLists(now), loaded \in BOOLEAN :
          \E failedPost \in FetchOutcomes(urls) : Scrape(p, urls, loaded, failedPost)
    \/ \E ok \in FaultChoices : LogNoPosts(p, ok)
    \/ run[p].pc = "parse" /\ \E res \in ParseResults(run[p].posts) : Parse(p, res)
    \/ \E ok \in FaultChoices : CheckExists(p, ok)
    \/ \E ok \in FaultChoices : StoreDaySet(p, ok)
    \/ \E ok \in FaultChoices : StoreDayIndex(p, ok)
    \/ \E ok \in FaultChoices : StoreWeekMeta(p, ok)
    \/ \E ok \in FaultChoices : StoreMarker(p, ok)
    \/ \E ok \in FaultChoices : FinalLog(p, ok)
    \/ \E ok \in FaultChoices : FatalLog(p, ok)
    \/ Finish(p)

Reads ==
    \/ \E date \in ReadDates, ok \in FaultChoices : ReadDate(date, ok)
    \/ ReadBadDate
    \/ \E ok \in FaultChoices : ReadToday(ok)
    \/ \E okIndex \in FaultChoices, badGet \in BadGets : ReadAll(okIndex, badGet)
    \/ \E iso \in ExistsKeys, ok \in FaultChoices : ReadDayExists(iso, ok)

Next ==
    \/ \E p \in DOMAIN run : Post(p)
    \/ Reads
    \/ Tick
    \/ Jump

Spec == Init /\ [][Next]_vars

----------------------------------------------------------------------------
(* convertToISODate on its own: every reference instant and partial date *)

\* the first, the middle and the last day of every month of two years
RefInstants ==
    {Instant(y, m, d) : y \in {2024, 2025}, m \in 1..12, d \in {1, 3, 20, 28}}

\* also 31.04, 30.02 and the like; and 99.99, which the route's pattern admits
PartialDates == ({1, 2, 15, 30, 31} \X (1..12)) \cup {<<99, 99>>}

InitNorm ==
    /\ now \in RefInstants
    /\ tz = 0
    /\ cronSecret = NoSecret
    /\ dayRec = EmptyFn
    /\ daysList = EmptyFn
    /\ weekMeta = EmptyFn
    /\ latestUpdate = Null
    /\ logs = EmptyFn
    /\ run = [p \in {1} |-> IdleRun]
    /\ lastRead = NoRead
    /\ budget = [runs |-> 0, faults |-> 0]

Normalize(date) ==
    /\ lastRead' = [route |-> "convertToISODate", date |-> date,
                    answer |-> ConvertToISODate(date, now, tz)]
    /\ UNCHANGED <<envVars, storeVars, logs, run, budget>>

NextNorm == \E date \in PartialDates : Normalize(date)

SpecNorm == InitNorm /\ [][NextNorm]_vars

----------------------------------------------------------------------------
(* shouldSkipScraping on its own: the store a run left behind, the clock
   moving on by hours and days, and the check taken at any moment *)

\* days the clock goes on after the update
MaxSkipDays == 8

\* the server's timezone offsets
SkipOffsets == {-5, 0, 2}

\* a Monday
SkipStart == Instant(2024, 10, 21)

\* the instants of the update: at midnight, in the morning, late at night
SkipMarkers == {SkipStart + h : h \in {0, 10, 23}}

\* what the store covers, as the first and the last day counted from the day
\* of the update: two weeks, three weeks, the day itself, past days, nothing
CoverageChoices == {<<0, 13>>, <<0, 20>>, <<0, 0>>, <<-3, -1>>, <<0, -1>>}

DatesFrom(dayNum, cov) == {CivilTable[dayNum + k] : k \in cov[1]..cov[2]}

\* kv lines 238-302 as one step
ShouldSkipScraping(okIndex, okMarker) ==
    IF ~okIndex THEN SkipError
    ELSE IF DOMAIN daysList = {} THEN SkipNoSchedules
    ELSE IF ~okMarker THEN SkipError
    ELSE SkipResult(DaysAhead(DOMAIN daysList, now, tz),
                    DaysSinceUpdate(latestUpdate, now))

InitSkip ==
    \E m \in SkipMarkers, off \in SkipOffsets, cov \in CoverageChoices,
       marked \in BOOLEAN :
        LET dates == DatesFrom(FloorDiv(m + off, HoursPerDay), cov)
            sched == [sourceUrl |-> UrlCurrent, scrapedAt |-> m]
        IN  /\ now = m
            /\ tz = off
            /\ cronSecret = Secret
            /\ dayRec = [iso \in dates |->
                           DayRecord(Day(<<iso[3], iso[2]>>, "", << >>), iso, sched)]
            /\ daysList = [iso \in dates |-> m]
            /\ weekMeta = EmptyFn
            /\ latestUpdate = IF marked THEN Some(m) ELSE Null
            /\ logs = EmptyFn
            /\ run = [p \in {1} |-> IdleRun]
            /\ lastRead = NoRead
            /\ budget = [runs |-> 0, faults |-> 0]

\* the freshness check of a request
CheckSkip(okIndex, okMarker) ==
    /\ lastRead' = [route |-> "shouldSkipScraping",
                    failed |-> ~okIndex \/ (DOMAIN daysList # {} /\ ~okMarker),
                    answer |-> ShouldSkipScraping(okIndex, okMarker)]
    /\ UNCHANGED <<envVars, storeVars, logs, run, budget>>

\* an hour or a day passes
SkipTick(h) ==
    /\ now + h - SkipStart <= MaxSkipDays * HoursPerDay
    /\ now' = now + h
    /\ lastRead' = NoRead
    /\ UNCHANGED <<tz, cronSecret, storeVars, logs, run, budget>>

\* the DD.MM a client derives from the server's local date
LocalPartialDate(t, off) == <<LocalDate(t, off)[3], LocalDate(t, off)[2]>>

\* GET /api/schedules/today next to GET /api/schedules/[date] for the local
\* date, and the day shouldSkipScraping takes as today (kv lines 256-257)
TodayAndByDate ==
    /\ lastRead' = [route |-> "todayAndByDate",
                    today |-> GetTodaySchedule(now, TRUE),
                    byDate |-> GetDaySchedule(LocalPartialDate(now, tz), now, tz, TRUE),
                    todayKey |-> ToISODateUTC(now),
                    skipToday |-> LocalDate(LocalMidnight(now, tz), tz)]
    /\ UNCHANGED <<envVars, storeVars, logs, run, budget>>

NextSkip ==
    \/ \E okIndex, okMarker \in BOOLEAN : CheckSkip(okIndex, okMarker)
    \/ TodayAndByDate
    \/ \E h \in {1, HoursPerDay} : SkipTick(h)

SpecSkip == InitSkip /\ [][NextSkip]_vars

----------------------------------------------------------------------------
(* Two overlapping invocations of POST /api/scrape: the cron trigger and a
   manual request, or a retried trigger *)

\* hours that may pass while the two invocations are under way
MaxPairHours == 1

InitPair ==
    /\ now = EraOctober
    /\ tz = 0
    /\ cronSecret = Secret
    /\ dayRec = EmptyFn
    /\ daysList = EmptyFn
    /\ weekMeta = EmptyFn
    /\ latestUpdate = Null
    /\ logs = EmptyFn
    /\ run = [p \in {1, 2} |-> IdleRun]
    /\ lastRead = NoRead
    /\ budget = [runs |-> MaxRuns, faults |-> 0]

\* time passes while the invocations wait for the network
PairTick ==
    /\ now + 1 - EraOctober <= MaxPairHours
    /\ now' = now + 1
    /\ logs' = Unexpired(now')
    /\ lastRead' = NoRead
    /\ UNCHANGED <<tz, cronSecret, storeVars, run, budget>>

\* both requests carry the secret and find the two posts, which load; what
\* the parser returns for them is open
PairPost(p) ==
    \/ Start(p, <<"Bearer ", Secret>>)
    \/ \E ok \in FaultChoices : SkipReadIndex(p, ok)
    \/ \E ok \in FaultChoices : SkipReadMarker(p, ok)
    \/ \E ok \in FaultChoices : LogSkip(p, ok)
    \/ Scrape(p, <<UrlCurrent, UrlNext>>, TRUE, 0)
    \/ run[p].pc = "parse" /\ \E res \in ParseResults(run[p].posts) : Parse(p, res)
    \/ \E ok \in FaultChoices : CheckExists(p, ok)
    \/ \E ok \in FaultChoices : StoreDaySet(p, ok)
    \/ \E ok \in FaultChoices : StoreDayIndex(p, ok)
    \/ \E ok \in FaultChoices : StoreWeekMeta(p, ok)
    \/ \E ok \in FaultChoices : StoreMarker(p, ok)
    \/ \E ok \in FaultChoices : FinalLog(p, ok)
    \/ Finish(p)

NextPair ==
    \/ \E p \in DOMAIN run : PairPost(p)
    \/ PairTick

SpecPair == InitPair /\ [][NextPair]_vars

----------------------------------------------------------------------------
(* lib/kv.ts, the week-keyed store: schedules:{week} holds the whole week
   and schedules:list the week identifiers.  Here weekMeta stands for the
   week objects, daysList for the sorted set and latestUpdate for the
   marker; day records do not exist in this store. *)

\* the number of storeWeekSchedule calls of one behaviour
MaxWeekStores == 2

\* the days the clock may move on
MaxWeekKeyedDays == 84

\* a Friday before the turn of the year
WeekKeyedStart == Instant(2024, 12, 20)

\* the first and the last day of the week beginning at day number n, as
\* the parser returns it at t
WeekFrom(n, t) ==
    [week |-> CivilTable[n],
     days |-> << Day(<<CivilTable[n][3], CivilTable[n][2]>>, "", << >>),
                 Day(<<CivilTable[n + 6][3], CivilTable[n + 6][2]>>, "", << >>) >>,
     sourceUrl |-> UrlCurrent,
     scrapedAt |-> t]

\* the four writes of storeWeekSchedule; failAt names the first that
\* throws, 5 that none does (the schedules:latest pointer is not read by
\* the freshness check and has no variable)
WriteFailures == 1..5

\* kv.ts lines 21-46
StoreWeekKeyed(schedule, failAt) ==
    /\ budget.runs > 0
    /\ weekMeta' = IF failAt > 1 THEN Put(weekMeta, schedule.week, schedule)
                   ELSE weekMeta
    /\ daysList' = IF failAt > 2 THEN Put(daysList, schedule.week, schedule.scrapedAt)
                   ELSE daysList
    /\ latestUpdate' = IF failAt > 4 THEN Some(now) ELSE latestUpdate
    /\ budget' = [budget EXCEPT !.runs = @ - 1]
    /\ lastRead' = NoRead
    /\ UNCHANGED <<envVars, dayRec, logs, run>>

\* kv.ts lines 86-108: the weeks of the list whose object could be read;
\* a failing zrange gives none (the loop over them does not depend on
\* their order)
GetAllWeekSchedules(okList, badGet) ==
    IF ~okList THEN {}
    ELSE {weekMeta[w] : w \in (DOMAIN daysList \ badGet) \cap DOMAIN weekMeta}

\* kv.ts lines 226-236: new Date(year, monthNum - 1, dayNum) in the year of
\* today, a January date before today moved to the next year
WeekKeyedDate(date, today, off) ==
    LET year == GetFullYear(today, off)
        thisYear == DayNum(year, date[2], date[1]) * HoursPerDay - off
    IN  IF thisYear < today /\ date[2] = 1
        THEN DayNum(year + 1, date[2], date[1]) * HoursPerDay - off
        ELSE thisYear

\* kv.ts lines 215-241
DaysAheadWeekKeyed(schedules, t, off) ==
    LET today == LocalMidnight(t, off)
        dates == {WeekKeyedDate(sch.days[k].date, today, off) :
                    sch \in schedules, k \in 1..2}
        maxDate == SetMax({today} \cup dates)
    IN  CeilDiv(maxDate - today, HoursPerDay)

\* kv.ts lines 200-272 as one step
ShouldSkipScrapingWeekKeyed(okList, badGet, okMarker) ==
    LET schedules == GetAllWeekSchedules(okList, badGet)
    IN  IF schedules = {} THEN SkipNoSchedules
        ELSE IF ~okMarker THEN SkipError
        ELSE SkipResult(DaysAheadWeekKeyed(schedules, now, tz),
                        DaysSinceUpdate(latestUpdate, now))

InitWeekKeyed ==
    /\ now \in {WeekKeyedStart + h : h \in {0, 23}}
    /\ tz \in SkipOffsets
    /\ cronSecret = Secret
    /\ dayRec = EmptyFn
    /\ daysList = EmptyFn
    /\ weekMeta = EmptyFn
    /\ latestUpdate = Null
    /\ logs = EmptyFn
    /\ run = [p \in {1} |-> IdleRun]
    /\ lastRead = NoRead
    /\ budget = [runs |-> MaxWeekStores, faults |-> 0]

\* the freshness check of a request
CheckWeekKeyed(okList, badGet, okMarker) ==
    /\ lastRead' = [route |-> "shouldSkipScrapingWeekKeyed",
                    failed |-> ~okList \/ badGet # {} \/ ~okMarker,
                    answer |-> ShouldSkipScrapingWeekKeyed(okList, badGet, okMarker)]
    /\ UNCHANGED <<envVars, storeVars, logs, run, budget>>

\* a week or four weeks pass
WeekKeyedTick(d) ==
    /\ now + d * HoursPerDay - WeekKeyedStart < (MaxWeekKeyedDays + 1) * HoursPerDay
    /\ now' = now + d * HoursPerDay
    /\ lastRead' = NoRead
    /\ UNCHANGED <<tz, cronSecret, storeVars, logs, run, budget>>

\* the blog shows last week's post, this week's or the next one's
NextWeekKeyed ==
    \/ \E ahead \in {-7, 0, 7}, failAt \in WriteFailures :
         StoreWeekKeyed(WeekFrom(FloorDiv(now + tz, HoursPerDay) + ahead, now), failAt)
    \/ \E okList, okMarker \in BOOLEAN, badGet \in SUBSET DOMAIN daysList :
         CheckWeekKeyed(okList, badGet, okMarker)
    \/ \E d \in {7, 28} : WeekKeyedTick(d)

SpecWeekKeyed == InitWeekKeyed /\ [][NextWeekKeyed]_vars

----------------------------------------------------------------------------
(* The claims *)

Procs == DOMAIN run

IsLogWrite(w) == w[1] = "log"

\* the run went through the storage loop and has answered
Reported(r) == r.pc = "done" /\ "parseAllSchedules" \in r.calls

C2_SkipShortCircuits ==
    \A p \in Procs :
        LET r == run[p] IN
        r.skip.shouldSkip =>
            /\ r.pc \in {"skipDone", "done"}
            /\ r.calls = {"shouldSkipScraping"}
            /\ \A w \in r.writes : IsLogWrite(w)
            /\ Cardinality(r.writes) <= 1
            /\ r.pc = "done" =>
                  /\ r.response.status = 200
                  /\ r.response.body.result.schedulesProcessed = 0
                  /\ r.response.body.skipped
                  /\ r.response.body.skipReason = r.skip.reason

C2_Witness ==
    \E p \in Procs :
        /\ run[p].pc = "done"
        /\ run[p].skip.shouldSkip
        /\ run[p].writes # {}
        /\ DOMAIN dayRec # {}

\* C3: in a run whose storage operations succeed, every parsed submission
\* whose week identifier was recorded before the run is listed as skipped,
\* not as stored or as an error; when that is all of them the run reports
\* schedulesProcessed = 0 and writes nothing but its log entry.
C3_SecondRunIdempotent ==
    \A p \in Procs :
        LET r == run[p]
            weeks == {r.schedules[k].week : k \in 1..Len(r.schedules)}
        IN  (Reported(r) /\ ~r.faulted) =>
               /\ \A w \in weeks \cap r.known :
                     /\ w \in Range(r.skipped)
                     /\ w \notin Range(r.stored)
                     /\ \A e \in Range(r.errors) : e[2] # w
               /\ weeks \subseteq r.known =>
                     /\ r.response.body.result.schedulesProcessed = 0
                     /\ r.response.body.stored = << >>
                     /\ \A w \in r.writes : IsLogWrite(w)

C3_Witness ==
    \E p \in Procs :
        /\ Reported(run[p])
        /\ ~run[p].faulted
        /\ Len(run[p].schedules) = 2
        /\ Len(run[p].skipped) = 2
        /\ run[p].response.body.result.schedulesProcessed = 0

\* what the lookup by DD.MM finds for a day of a submission
Persisted(day) ==
    LET found == GetDaySchedule(day.date, now, tz, TRUE)
    IN  /\ found # Null
        /\ found[1].date = day.date
        /\ found[1].dayName = day.dayName
        /\ found[1].trainingSessions = day.trainingSessions

\* C4: in a run over two documents of which one parses and the other does
\* not, the valid document's days are persisted, schedulesProcessed is 1 and
\* the report's errors hold exactly one entry, for the failed document.
C4_PartialBatchReported ==
    \A p \in Procs :
        LET r == run[p] IN
        (/\ Reported(r) /\ ~r.faulted
         /\ Len(r.posts) = 2 /\ Len(r.schedules) = 1
         /\ r.schedules[1].week \notin r.known) =>
            /\ r.response.body.result.schedulesProcessed = 1
            /\ \A k \in 1..Len(r.schedules[1].days) :
                  Persisted(r.schedules[1].days[k])
            /\ Len(r.response.body.result.errors) = 1

\* the DaySchedule of a stored record: its date, its labels and its sessions
DayContent(rec) ==
    [date |-> rec.date, dayName |-> rec.dayName,
     trainingSessions |-> rec.trainingSessions]

\* C5: once a day is stored under a canonical date, no later submission
\* changes the DaySchedule stored for that date.
C5_FirstWriteWins ==
    [][\A iso \in DOMAIN dayRec :
          /\ iso \in DOMAIN dayRec'
          /\ DayContent(dayRec'[iso]) = DayContent(dayRec[iso])]_vars

\* the year the claim gives a partial date at a reference instant
ClaimedYear(month, refYear, refMonth) ==
    IF refMonth = 1 /\ month = 12 THEN refYear - 1
    ELSE IF refMonth = 12 /\ month = 1 THEN refYear + 1
    ELSE refYear

\* C6: convertToISODate gives the reference year, except the previous year
\* for a December date read in January and the next year for a January date
\* read in December; 30.12 at 2025-01-03 is 2024-12-30 and 02.01 at
\* 2024-12-20 is 2025-01-02.
C6_YearBoundary ==
    lastRead.route = "convertToISODate" =>
        LET ref == CivilOf(now \div 24)
            date == lastRead.date
        IN  /\ lastRead.answer =
                  <<ClaimedYear(date[2], ref[1], ref[2]), date[2], date[1]>>
            /\ (ref = <<2025, 1, 3>> /\ date = <<30, 12>>) =>
                  lastRead.answer = <<2024, 12, 30>>
            /\ (ref = <<2024, 12, 20>> /\ date = <<2, 1>>) =>
                  lastRead.answer = <<2025, 1, 2>>

C6_Witness ==
    /\ lastRead.route = "convertToISODate"
    /\ now = Instant(2025, 1, 3)
    /\ lastRead.date = <<30, 12>>
    /\ lastRead.answer = <<2024, 12, 30>>

\* storeWeekSchedule has just returned the days of the current submission
JustStored(p) ==
    /\ run[p].pc = "loop"
    /\ run[p].i > 1
    /\ run[p].stored # << >>
    /\ run[p].stored[Len(run[p].stored)] = run[p].schedules[run[p].i - 1].week

C8_RestDayIsNotAbsent ==
    (lastRead.route = "date" /\ lastRead.date # << >> /\ ~lastRead.failed) =>
        LET iso == ConvertToISODate(lastRead.date, now, tz)
        IN  /\ lastRead.answer.status = 200
            /\ iso \in DOMAIN dayRec =>
                  /\ lastRead.answer.body # Null
                  /\ lastRead.answer.body[1] = dayRec[iso]
            /\ iso \notin DOMAIN dayRec => lastRead.answer.body = Null

C8_Witness ==
    /\ lastRead.route = "date"
    /\ ~lastRead.failed
    /\ lastRead.answer.status = 200
    /\ lastRead.answer.body # Null
    /\ lastRead.answer.body[1].trainingSessions = << >>

\* the request carries "Bearer " followed by the configured secret
Allowed(r) ==
    /\ cronSecret # NoSecret
    /\ cronSecret # ""
    /\ r.header = <<"Bearer ", cronSecret>>

\* C9: a request goes past the gate only with the configured secret; every
\* other request is answered 401 and has called no collaborator, read no
\* storage and written nothing.
C9_AuthorizationGate ==
    \A p \in Procs :
        LET r == run[p] IN
        r.pc # "idle" =>
            IF Allowed(r)
            THEN r.response.status # 401
            ELSE /\ r.pc = "done"
                 /\ r.response.status = 401
                 /\ r.calls = {}
                 /\ r.writes = {}
                 /\ ~r.faulted

C9_Witness ==
    \E p \in Procs :
        /\ run[p].pc = "done"
        /\ run[p].response.status = 401
        /\ cronSecret = Secret
        /\ run[p].header = <<"Bearer ", "guess">>
        /\ DOMAIN dayRec # {}

\* C10: when a storage read of shouldSkipScraping fails the answer is do not
\* skip with daysAhead = 0, and the run goes on to the acquisition.
C10_ReadFailureDoesNotSkip ==
    \A p \in Procs :
        LET r == run[p] IN
        /\ (r.pc = "skipDone" /\ r.faulted) =>
              (~r.skip.shouldSkip /\ r.skip.daysAhead = 0)
        /\ (r.pc = "done" /\ r.skip.reason = <<"Error checking schedules">>) =>
              "scrapeAllBlogPosts" \in r.calls

C10_Witness ==
    \E p \in Procs :
        /\ run[p].pc = "skipDone"
        /\ run[p].faulted
        /\ DaysAhead(DOMAIN daysList, now, tz) >= 14
        /\ DaysSinceUpdate(latestUpdate, now) < 5

\* the run has answered after the acquisition found no document
FoundNoDocuments(r) ==
    /\ r.pc = "done"
    /\ "scrapeAllBlogPosts" \in r.calls
    /\ "parseAllSchedules" \notin r.calls
    /\ r.fatal = << >>

\* C11: a run whose acquisition finds zero documents answers success = true
\* with schedulesProcessed = 0 and a note, and writes no schedule data.
C11_ZeroDocumentsIsSuccess ==
    \A p \in Procs :
        LET r == run[p] IN
        FoundNoDocuments(r) =>
            /\ r.response.status = 200
            /\ r.response.body.success
            /\ r.response.body.schedulesProcessed = 0
            /\ \A w \in r.writes : IsLogWrite(w)

\* the run has answered after one of two listed posts failed to load
OneOfTwoFetchesFailed(r) ==
    /\ r.pc = "done"
    /\ Len(r.attempted) = 2
    /\ r.fatal # << >>
    /\ r.fatal[1] = "Failed to scrape blog post"

\* C12: when one of the two listed documents fails to load the batch is not
\* aborted: the run goes on to parse and store the other document and answers
\* with a report in which the failed document is a per-document error.
C12_FetchErrorIsLocal ==
    \A p \in Procs :
        LET r == run[p] IN
        OneOfTwoFetchesFailed(r) =>
            /\ r.response.status = 200
            /\ "parseAllSchedules" \in r.calls
            /\ Len(r.response.body.errors) = 1

\* the run has answered after the category page could not be scraped
CategoryPageFailed(r) ==
    /\ r.pc = "done"
    /\ r.fatal = <<"Error scraping category page">>

\* C13: when the category page cannot be scraped the run answers 500 with a
\* top-level error and schedulesProcessed = 0, the parser is never called, and
\* no day record, week identifier or last-update marker is written.
C13_TotalAcquisitionFailureAborts ==
    \A p \in Procs :
        LET r == run[p] IN
        /\ (r.pc = "fatal" /\ r.fatal = <<"Error scraping category page">>) =>
              ("parseAllSchedules" \notin r.calls /\ r.writes = {})
        /\ CategoryPageFailed(r) =>
              /\ r.response.status = 500
              /\ "error" \in DOMAIN r.response
              /\ r.response.body.schedulesProcessed = 0
              /\ ~r.response.body.success
              /\ r.response.body.errors = <<r.fatal>>
              /\ "parseAllSchedules" \notin r.calls
              /\ \A w \in r.writes : IsLogWrite(w)

C13_Witness ==
    \E p \in Procs :
        /\ CategoryPageFailed(run[p])
        /\ run[p].response.status = 500
        /\ run[p].writes # {}
        /\ DOMAIN weekMeta # {}

\* the structure the specification requires of a submission: a week
\* identifier, at least one day, and a date and a day name for each day
WellFormed(sched) ==
    /\ sched.week # ""
    /\ Len(sched.days) > 0
    /\ \A k \in 1..Len(sched.days) :
          sched.days[k].date # << >> /\ sched.days[k].dayName # ""

\* C14: a parsed candidate with a missing or empty week identifier, an empty
\* day sequence or a day without date or day name is rejected before storage:
\* its week identifier is not recorded, and a run whose candidates are all of
\* that kind writes no day record and does not advance the marker.
C14_StructuralValidation ==
    \A p \in Procs :
        LET r == run[p]
            bad == {k \in 1..Len(r.schedules) : ~WellFormed(r.schedules[k])}
        IN  /\ \A k \in bad : <<"week", <<r.schedules[k].week>> >> \notin r.writes
            /\ (bad # {} /\ bad = 1..Len(r.schedules)) =>
                  \A w \in r.writes : IsLogWrite(w)

\* the key denotes one real calendar date
DenotesRealDate(iso) ==
    /\ iso[2] \in 1..12
    /\ iso[3] \in 1..DaysInMonth(iso[1], iso[2])

\* C15: the normalizer never answers with a key that does not denote a real
\* calendar date: for a day/month pair that is no real date (31.04, 99.99) it
\* fails instead of producing a key.
C15_InvalidDatesRejected ==
    lastRead.route = "convertToISODate" => DenotesRealDate(lastRead.answer)

\* C16: a successful read of all schedules answers with every indexed day,
\* ordered by calendar date, newest first, whatever the order of ingestion.
C16_AllNewestFirst ==
    (lastRead.route = "all" /\ ~lastRead.failed) =>
        LET body == lastRead.answer.body
        IN  /\ {body[k].isoDate : k \in 1..Len(body)} = DOMAIN daysList
            /\ \A i, j \in 1..Len(body) :
                  i < j => IsoBefore(body[j].isoDate, body[i].isoDate)

\* C17: on the read paths a storage error is answered as a server-side
\* failure, never with the success status that a read of absent data gets.
C17_ReadFailureIsDistinguishable ==
    (lastRead.route \in {"today", "date", "all"} /\ lastRead.failed) =>
        lastRead.answer.status = 500

\* the local calendar day of an instant, as a day number
LocalDay(t) == FloorDiv(t + tz, HoursPerDay)

\* the freshness check has just answered, with both reads succeeding
Checked == lastRead.route = "shouldSkipScraping" /\ ~lastRead.failed

TwoWeeksFromUpdate ==
    /\ latestUpdate # Null
    /\ DOMAIN daysList = DatesFrom(LocalDay(latestUpdate[1]), <<0, 13>>)

\* C19: after a run that stored the current and the next week, a run on the
\* same day and the runs on the four following days are skipped, and the run
\* a week after the update scrapes again.
C19_ExampleScenario ==
    (Checked /\ TwoWeeksFromUpdate) =>
        LET day == LocalDay(now) - LocalDay(latestUpdate[1])
        IN  /\ day \in 0..4 => lastRead.answer.shouldSkip
            /\ day = 7 => ~lastRead.answer.shouldSkip

\* the latest stored date and today, as day numbers
LatestStoredDay == SetMax({DayNum(iso[1], iso[2], iso[3]) : iso \in DOMAIN daysList})

\* C20: daysAhead is the number of calendar days from today to the latest
\* stored date, at every time of day and timezone offset; it is 0 when the
\* store is empty or the latest date is not after today, and never negative.
C20_DaysAheadIsCalendarDays ==
    Checked =>
        /\ lastRead.answer.daysAhead >= 0
        /\ lastRead.answer.daysAhead =
              IF DOMAIN daysList = {} \/ LatestStoredDay <= LocalDay(now) THEN 0
              ELSE LatestStoredDay - LocalDay(now)

\* the step is a read: a read route or dayScheduleExists has answered, or a
\* run has taken a step of shouldSkipScraping or of weekScheduleExists
ReadStep ==
    \/ lastRead'.route # "none"
    \/ \E p \in Procs :
          /\ run'[p] # run[p]
          /\ \/ run[p].pc \in {"skipIndex", "skipMarker"}
             \/ run[p].pc = "loop" /\ run[p].i <= Len(run[p].schedules)

\* C21: a step of a read operation leaves the day records, the date index,
\* the week identifiers, the marker and the logs unchanged, also when the
\* storage call of the read fails.
C21_ReadsDoNotMutate ==
    [][ReadStep => UNCHANGED <<storeVars, logs>>]_vars

C21_Witness ==
    /\ lastRead.route \in {"today", "date", "all", "exists"}
    /\ lastRead.failed
    /\ DOMAIN dayRec # {}
    /\ latestUpdate # Null
    /\ DOMAIN logs # {}

\* the run has answered with the failure of the handler's catch
TerminalFailure(r) == r.pc = "done" /\ r.response.status = 500

\* C22: after a terminal failure of an authorized run whose storage calls
\* succeeded, the operation log holds an entry with the timestamp, the errors
\* and the source URLs the run attempted.
C22_TerminalFailureLogged ==
    \A p \in Procs :
        LET r == run[p]
            key == ToISODateUTC(now)
        IN  (TerminalFailure(r) /\ ~r.faulted) =>
               /\ key \in DOMAIN logs
               /\ logs[key].result.timestamp = now
               /\ logs[key].result.errors = <<r.fatal>>
               /\ logs[key].result.urls = r.attempted

\* the weeks a run reports as failed to store although it parsed days for
\* them and they were not recorded when the run began: storeWeekSchedule
\* returned 0 after a failed storage write
FailedStores(r) ==
    {r.errors[k][2] : k \in 1..Len(r.errors)} \ (r.known \cup {WeekNoDays.week})

\* C23: when a storage write fails inside storeWeekSchedule the call returns
\* 0, the run reports an error for the week, the days written so far stay,
\* the week identifier is not recorded and, if the run stored no other week,
\* the marker is not advanced.
C23_PartialStoreIsRetryable ==
    \A p \in Procs :
        LET r == run[p] IN
        \A w \in FailedStores(r) :
            /\ w \notin DOMAIN weekMeta
            /\ <<"week", <<w>> >> \notin r.writes
            /\ r.stored = << >> => <<"marker", << >> >> \notin r.writes
            /\ \A x \in r.writes : x[1] = "day" => x[2] \in DOMAIN dayRec

\* the keys of the days of the submission recorded under a week identifier,
\* as the store computed them when it wrote the week
DayKeysOf(week) ==
    UNION {{ConvertToISODate(c.days[k].date, weekMeta[week].scrapedAt, tz) :
               k \in 1..Len(c.days)} : c \in {x \in AllCandidates : x.week = week}}

\* C24: a recorded week identifier implies a day record and an index entry
\* for every day of that submission, and a set marker implies a recorded
\* week identifier, in every state, also between two writes or after a
\* failed one.
C24_WeekImpliesDays ==
    /\ \A week \in DOMAIN weekMeta :
          DayKeysOf(week) \subseteq DOMAIN dayRec \cap DOMAIN daysList
    /\ latestUpdate # Null => DOMAIN weekMeta # {}

C24_Witness ==
    /\ WeekA.week \in DOMAIN weekMeta
    /\ WeekB.week \notin DOMAIN weekMeta
    /\ <<2024, 10, 27>> \in DOMAIN dayRec
    /\ <<2024, 11, 3>> \notin DOMAIN dayRec
    /\ \E p \in Procs : run[p].faulted /\ run[p].pc = "loop"

\* the day record under a key was written by the submission recorded under
\* the week identifier
BelongsTo(iso, week) ==
    \E c \in {x \in AllCandidates : x.week = week} :
        \E k \in 1..Len(c.days) :
            dayRec[iso] = DayRecord(c.days[k], iso, weekMeta[week])

\* C25: in every state every date of the index has a day record, and every
\* day record that belongs to a recorded week identifier is in the index.
C25_IndexAndRecordsAgree ==
    /\ DOMAIN daysList \subseteq DOMAIN dayRec
    /\ \A iso \in DOMAIN dayRec :
          (\E week \in DOMAIN weekMeta : BelongsTo(iso, week)) =>
              iso \in DOMAIN daysList

C25_Witness ==
    /\ DOMAIN dayRec \ DOMAIN daysList # {}
    /\ DOMAIN daysList # {}
    /\ DOMAIN weekMeta # {}
    /\ \E p \in Procs : run[p].faulted

MarkerWritten(r) == <<"marker", << >> >> \in r.writes

\* the run has written every day, every index entry and the week identifier
\* of a submission that has days and was not recorded when the run began
FullyStoredNew(r, sc) ==
    /\ Len(sc.days) > 0
    /\ sc.week \notin r.known
    /\ <<"week", <<sc.week>> >> \in r.writes
    /\ \A k \in 1..Len(sc.days) :
          LET iso == ConvertToISODate(sc.days[k].date, sc.scrapedAt, tz)
          IN  <<"day", iso>> \in r.writes /\ <<"index", iso>> \in r.writes

\* C26: a run writes the marker only when it has fully stored at least one
\* new submission; a run that is unauthorized, skipped, finds no documents,
\* finds only duplicates or aborts leaves the marker as it was.
C26_MarkerOnlyWithNewSubmission ==
    \A p \in Procs :
        LET r == run[p] IN
        /\ MarkerWritten(r) =>
              \E k \in 1..Len(r.schedules) : FullyStoredNew(r, r.schedules[k])
        /\ (\/ r.response.status \in {401, 500}
            \/ r.skip.shouldSkip
            \/ FoundNoDocuments(r)
            \/ /\ Reported(r) /\ ~r.faulted
               /\ \A k \in 1..Len(r.schedules) : r.schedules[k].week \in r.known)
           => ~MarkerWritten(r)

\* the number of days of the submissions of a run that are listed as stored
RECURSIVE DaysOfStored(_, _)
DaysOfStored(r, k) ==
    IF k > Len(r.schedules) THEN 0
    ELSE (IF r.schedules[k].week \in Range(r.stored)
          THEN Len(r.schedules[k].days) ELSE 0) + DaysOfStored(r, k + 1)

\* the weeks of the error entries of a run
ErrorWeeks(r) == {r.errors[k][2] : k \in 1..Len(r.errors)}

\* C27: in the report of a run that reached the storage step every parsed
\* submission is in exactly one of stored, skipped and errors,
\* schedulesProcessed is the number of stored submissions, totalDaysStored
\* the number of their days, and success is true exactly when errors is
\* empty.
C27_ReportAccounting ==
    \A p \in Procs :
        LET r == run[p]
            body == r.response.body
        IN  Reported(r) =>
               /\ Len(r.stored) + Len(r.skipped) + Len(r.errors) = Len(r.schedules)
               /\ \A k \in 1..Len(r.schedules) :
                     LET w == r.schedules[k].week
                     IN  Cardinality({x \in {"stored", "skipped", "errors"} :
                            \/ x = "stored" /\ w \in Range(r.stored)
                            \/ x = "skipped" /\ w \in Range(r.skipped)
                            \/ x = "errors" /\ w \in ErrorWeeks(r)}) = 1
               /\ body.stored = r.stored /\ body.skipped = r.skipped
               /\ body.result.errors = r.errors
               /\ body.result.schedulesProcessed = Len(r.stored)
               /\ body.totalDaysStored = DaysOfStored(r, 1)
               /\ \A w \in Range(r.stored) : <<"week", <<w>> >> \in r.writes
               /\ body.result.success <=> (body.result.errors = << >>)

C27_Witness ==
    \E p \in Procs :
        /\ Reported(run[p])
        /\ Len(run[p].stored) = 1
        /\ Len(run[p].errors) = 1
        /\ run[p].response.body.totalDaysStored = 2
        /\ ~run[p].response.body.result.success

\* both invocations have answered with a report, and no other has been
\* made before them
BothReported ==
    /\ \A p \in Procs : Reported(run[p])
    /\ budget.runs = MaxRuns - 2

\* the weeks both invocations went on to store: each found on its own check
\* that the week was not recorded
OverlappedWeeks ==
    {w \in DOMAIN weekMeta : \A p \in Procs : w \in Range(run[p].stored)}

\* the records the invocations wrote, whole, under a key
WrittenBy(iso) ==
    UNION {{DayRecord(sc.days[j], iso, sc) :
               j \in {x \in 1..Len(sc.days) :
                         ConvertToISODate(sc.days[x].date, sc.scrapedAt, tz) = iso}} :
           sc \in UNION {Range(run[p].schedules) : p \in Procs}}

\* C28: when two invocations overlap on a new submission the store ends
\* with the day keys, index entries and week identifier of a single run: every
\* day of the week has its record and one index entry, nothing else is stored
\* or indexed, no date is ever indexed without a record, and every day record
\* is the whole record one of the invocations wrote.
C28_OverlapConverges ==
    /\ DOMAIN daysList \subseteq DOMAIN dayRec
    /\ BothReported =>
          /\ \A w \in OverlappedWeeks :
                DayKeysOf(w) \subseteq DOMAIN dayRec \cap DOMAIN daysList
          /\ DOMAIN dayRec = UNION {DayKeysOf(w) : w \in DOMAIN weekMeta}
          /\ DOMAIN daysList = DOMAIN dayRec
          /\ \A iso \in DOMAIN dayRec : dayRec[iso] \in WrittenBy(iso)

C28_Witness ==
    /\ BothReported
    /\ WeekA.week \in OverlappedWeeks
    /\ run[1].schedules[1].scrapedAt # run[2].schedules[1].scrapedAt
    /\ dayRec[<<2024, 10, 20>>].scrapedAt # dayRec[<<2024, 10, 26>>].scrapedAt

\* C29: getTodaySchedule answers what getDaySchedule answers for the DD.MM
\* of the current local date, and the day the freshness check takes as
\* today is the day getTodaySchedule looks up, at every instant and offset.
C29_TodayAgreesWithByDate ==
    lastRead.route = "todayAndByDate" =>
        /\ lastRead.today = lastRead.byDate
        /\ lastRead.todayKey = lastRead.skipToday

\* the day number of the calendar day a stored DD.MM stands for: the day of
\* that name nearest to the day the week was scraped
RealDay(date, scrapedAt) ==
    LET sd == FloorDiv(scrapedAt, HoursPerDay)
    IN  CHOOSE k \in (sd - 30)..(sd + 30) :
            CivilTable[k][3] = date[1] /\ CivilTable[k][2] = date[2]

StoredRealDays ==
    {RealDay(weekMeta[w].days[k].date, weekMeta[w].scrapedAt) :
        w \in DOMAIN daysList, k \in 1..2}

\* C30: in the week-keyed store the daysAhead of shouldSkipScraping is the
\* number of days from today to the latest stored day that really lies in
\* the future, 0 when every stored day has passed, and then the run is not
\* skipped.
C30_DaysAheadCountsFutureDays ==
    (lastRead.route = "shouldSkipScrapingWeekKeyed" /\ ~lastRead.failed
        /\ DOMAIN daysList # {}) =>
        LET todayNum == FloorDiv(now + tz, HoursPerDay)
            latest == SetMax({todayNum} \cup StoredRealDays)
        IN  /\ lastRead.answer.daysAhead = latest - todayNum
            /\ latest = todayNum => ~lastRead.answer.shouldSkip

====
